---- MODULE Spec2Model ----
(***************************************************************************)
(* Model of the Enable Banking sandbox client.                             *)
(*                                                                         *)
(*   enable_banking_service.py  EnableBankingService: the REST client      *)
(*                              (token minting, request dispatch,          *)
(*                              single-page and paginated transactions).   *)
(*   streamlit_app.py           the page script, re-evaluated from top to  *)
(*                              bottom on every user interaction, with its *)
(*                              Flow State in st.session_state.            *)
(*                                                                         *)
(* Python values: None is the string "None" for string-valued slots and    *)
(* the record NoDict for dict-valued slots; a dict with optional keys is a *)
(* function whose DOMAIN is the set of keys present.                       *)
(***************************************************************************)
EXTENDS Integers, Sequences, FiniteSets, TLC

VARIABLES
    \* ---- EnableBankingService.fetch_all_transactions, one call in progress
    fpc,        \* position: "idle", "for" (loop head), "return", "returned",
                \* "page_returned", "raised"
    frame,      \* arguments and locals of the call (all_items, continuation_key, i)
    server,     \* the remote API: the responses it gives, in request order
    sent,       \* HTTP requests issued by the call so far, oldest first
    fret,       \* the list fetch_all_transactions returned (<<>> until it returns)
    page,       \* the dict a direct get_transactions call returned
    minted,     \* the values time.time() gave to _generate_jwt, one per token
                \* minted by the call, oldest first
    \* ---- EnableBankingService.start_auth called on its own
    auth_call,  \* the last call: its clock, its access argument and the
                \* request it issued (NoDict before any call)
    \* ---- streamlit_app.py, the page script
    session_state,  \* st.session_state: keys oauth_state, auth, session, last_code
    query_params,   \* st.query_params: the code and state of the current URL
    run,            \* the last evaluation of the script: how it ended, the
                    \* service calls it made, what it rendered
    \* ---- history
    okMatched,      \* codes whose exchange succeeded on a callback whose state
                    \* equalled the stored nonce
    lastSentState,  \* the state value of the most recent start_auth payload
    prevSentState   \* the state value of the start_auth payload before that

cvars == <<fpc, frame, server, sent, fret, page, minted>>

fvars == <<session_state, query_params, run, okMatched, lastSentState,
           prevSentState>>

gvars == <<auth_call>>

vars == <<fpc, frame, server, sent, fret, page, minted, auth_call,
          session_state, query_params, run, okMatched, lastSentState,
          prevSentState>>

-----------------------------------------------------------------------------
(* Python values *)

None == "None"

NoDict == [none |-> TRUE]

\* Python truthiness of an Optional[str]
Truthy(s) == s # None /\ s # ""

\* dict.get(key, default)
Get(d, key, default) == IF key \in DOMAIN d THEN d[key] ELSE default

-----------------------------------------------------------------------------
(* Bounds and input sets *)

\* longest response script of the modelled server
MaxSrvLen == 3

\* largest max_pages argument tried
MaxPagesArg == 4

\* values of int(time.time()) at which a request is issued
Clocks == {1767225600, 1767229200}

AccountIds == {"acc1"}

DateFroms == {None, "", "2026-01-01"}

DateTos == {None, "2026-02-01"}

ContinuationKeys == {"", "k1", "k2"}

\* JSON bodies of a transactions page: both keys are optional, the
\* continuation key may be absent, empty or a token
PageBodies ==
    { [transactions |-> <<"t1">>, continuation_key |-> ""],
      [transactions |-> <<"t2", "t3">>],
      [transactions |-> <<"t1">>, continuation_key |-> "k1"],
      [transactions |-> <<"t2", "t3">>, continuation_key |-> "k1"],
      [transactions |-> <<"t1">>, continuation_key |-> "k2"],
      [continuation_key |-> "k1"] }

\* a response: 2xx with a JSON body, or a non-2xx status
Responses ==
    { [ok |-> TRUE, json |-> b] : b \in PageBodies }
    \cup { [ok |-> FALSE, json |-> NoDict] }

Servers == UNION { [1..n -> Responses] : n \in 1..MaxSrvLen }

\* the response of server srv to the k-th request it receives (the script repeats)
Respond(srv, k) == srv[((k - 1) % Len(srv)) + 1]

-----------------------------------------------------------------------------
(* EnableBankingService *)

application_id == "app-id"

base_url == "https://api.enablebanking.com"

_generate_jwt(now) ==
    [ payload |-> [iss |-> "enablebanking.com",
                   aud |-> "api.enablebanking.com",
                   iat |-> now,
                   exp |-> now + 3600],
      headers |-> [typ |-> "JWT", kid |-> application_id],
      algorithm |-> "RS256" ]

_headers(now) ==
    ("Authorization" :> [scheme |-> "Bearer", token |-> _generate_jwt(now)])
    @@ ("Content-Type" :> [scheme |-> "application/json", token |-> NoDict])

\* the dict d without key k (kwargs.pop)
Without(d, k) == [x \in DOMAIN d \ {k} |-> d[x]]

\* the request handed to requests.request (lines 46-53); kwargs is the dict
\* of keyword arguments (params, json, headers); caller headers are layered
\* over the mandatory ones
_request(method, path, kwargs, now) ==
    LET headers == Get(kwargs, "headers", <<>>)
    IN [ method |-> method,
         url |-> base_url \o path,
         headers |-> IF headers # <<>> THEN headers @@ _headers(now)
                     ELSE _headers(now),
         kwargs |-> Without(kwargs, "headers") ]

TxParamsAll(date_from, date_to, continuation_key) ==
    [ date_from |-> IF Truthy(date_from) THEN date_from ELSE "",
      date_to |-> IF Truthy(date_to) THEN date_to ELSE "",
      continuation_key |->
          IF Truthy(continuation_key) THEN continuation_key ELSE "" ]

\* the params dict built by get_transactions (lines 112-118)
TxParamsCK(date_from, date_to, continuation_key) ==
    [ k \in { x \in {"date_from", "date_to", "continuation_key"} :
                \/ x = "date_from" /\ Truthy(date_from)
                \/ x = "date_to" /\ Truthy(date_to)
                \/ x = "continuation_key" /\ Truthy(continuation_key) } |->
        CASE k = "date_from" -> date_from
          [] k = "date_to" -> date_to
          [] k = "continuation_key" -> continuation_key ]

get_transactionsStaleToken(account_id, date_from, date_to, continuation_key, now) ==
    _request("GET", "/accounts/" \o account_id \o "/transactions",
             [params |-> TxParamsCK(date_from, date_to, continuation_key)],
             1767225600)

\* the request issued by get_transactions
get_transactions(account_id, date_from, date_to, continuation_key, now) ==
    _request("GET", "/accounts/" \o account_id \o "/transactions",
             [params |-> TxParamsCK(date_from, date_to, continuation_key)], now)


-----------------------------------------------------------------------------
(* fetch_all_transactions, one step per loop iteration; get_transactions   *)
(* called on its own                                                        *)

\* an entry of `sent`: the arguments get_transactions was called with and
\* the HTTP request it issued
SentEntry(account_id, date_from, date_to, continuation_key, now) ==
    [ args |-> [ account_id |-> account_id,
                 date_from |-> date_from,
                 date_to |-> date_to,
                 continuation_key |-> continuation_key ],
      req |-> get_transactions(account_id, date_from, date_to,
                               continuation_key, now) ]

\* a direct call of get_transactions: one request, response.json() returned
\* or the HTTP error raised
GetTransactionsCall(account_id, date_from, date_to, continuation_key, srv, now) ==
    /\ fpc = "idle"
    /\ server' = srv
    /\ sent' = <<SentEntry(account_id, date_from, date_to, continuation_key, now)>>
    /\ minted' = <<now>>
    /\ LET resp == Respond(srv, 1)
       IN IF resp.ok
            THEN fpc' = "page_returned" /\ page' = resp.json
            ELSE fpc' = "raised" /\ page' = page
    /\ UNCHANGED <<frame, fret>>
    /\ UNCHANGED <<fvars, gvars>>

\* the call: locals initialised (lines 130-131), about to enter the for loop
FetchCall(account_id, date_from, date_to, max_pages, srv) ==
    /\ fpc = "idle"
    /\ fpc' = "for"
    /\ frame' = [ account_id |-> account_id,
                  date_from |-> date_from,
                  date_to |-> date_to,
                  max_pages |-> max_pages,
                  all_items |-> <<>>,
                  continuation_key |-> None,
                  i |-> 0 ]
    /\ server' = srv
    /\ sent' = <<>>
    /\ minted' = <<>>
    /\ fret' = <<>>
    /\ UNCHANGED page
    /\ UNCHANGED <<fvars, gvars>>

InRangeOffByOne(f) == f.i <= f.max_pages

\* `for _ in range(max_pages)` has another iteration to run
InRange(f) == f.i < f.max_pages

LoopBodyOverwrite(f, data) ==
    [ f EXCEPT !.all_items = Get(data, "transactions", <<>>),
               !.continuation_key = Get(data, "continuation_key", None),
               !.i = @ + 1 ]

LoopBodyStaleKey(f, data) ==
    [ f EXCEPT !.all_items = @ \o Get(data, "transactions", <<>>),
               !.continuation_key =
                   IF Truthy(@) THEN @ ELSE Get(data, "continuation_key", None),
               !.i = @ + 1 ]

\* the locals after one loop body (lines 134-136) on the page body `data`
LoopBody(f, data) ==
    [ f EXCEPT !.all_items = @ \o Get(data, "transactions", <<>>),
               !.continuation_key = Get(data, "continuation_key", None),
               !.i = @ + 1 ]

\* `if not continuation_key: break` (lines 137-138)
Break(f) == ~Truthy(f.continuation_key)

FetchPageSwallow(now) ==
    /\ fpc = "for"
    /\ InRange(frame)
    /\ minted' = Append(minted, now)
    /\ LET resp == Respond(server, Len(sent) + 1)
       IN /\ sent' = Append(sent, SentEntry(frame.account_id, frame.date_from,
                        frame.date_to, frame.continuation_key, now))
          /\ IF ~resp.ok
                THEN /\ fpc' = "return"
                     /\ UNCHANGED <<frame, fret>>
                ELSE /\ frame' = LoopBody(frame, resp.json)
                     /\ fpc' = IF Break(frame') THEN "return" ELSE "for"
                     /\ UNCHANGED fret
    /\ UNCHANGED <<server, page>>
    /\ UNCHANGED <<fvars, gvars>>

\* one iteration of `for _ in range(max_pages)`: a get_transactions call
\* whose HTTP error propagates out of fetch_all_transactions
FetchPage(now) ==
    /\ fpc = "for"
    /\ InRange(frame)
    /\ minted' = Append(minted, now)
    /\ LET resp == Respond(server, Len(sent) + 1)
       IN /\ sent' = Append(sent, SentEntry(frame.account_id, frame.date_from,
                        frame.date_to, frame.continuation_key, now))
          /\ IF ~resp.ok
                THEN /\ fpc' = "raised"
                     /\ UNCHANGED <<frame, fret>>
                ELSE /\ frame' = LoopBody(frame, resp.json)
                     /\ fpc' = IF Break(frame') THEN "return" ELSE "for"
                     /\ UNCHANGED fret
    /\ UNCHANGED <<server, page>>
    /\ UNCHANGED <<fvars, gvars>>

\* `return all_items` (line 140), after a break or when the range is exhausted
FetchReturn ==
    /\ \/ fpc = "return"
       \/ fpc = "for" /\ ~InRange(frame)
    /\ fpc' = "returned"
    /\ fret' = frame.all_items
    /\ UNCHANGED <<frame, server, sent, page, minted>>
    /\ UNCHANGED <<fvars, gvars>>

InitFetch ==
    /\ fpc = "idle"
    /\ frame = [ account_id |-> None, date_from |-> None, date_to |-> None,
                 max_pages |-> 0, all_items |-> <<>>,
                 continuation_key |-> None, i |-> 0 ]
    /\ server = <<>>
    /\ sent = <<>>
    /\ fret = <<>>
    /\ page = NoDict
    /\ minted = <<>>

-----------------------------------------------------------------------------
(* The remaining service methods: the request each one issues *)

\* seconds in a day
DaySeconds == 86400

\* days of the default consent window (timedelta(days=90))
ConsentDays == 90

Pad2(n) == IF n < 10 THEN "0" \o ToString(n) ELSE ToString(n)

Pad4(n) ==
    IF n < 10 THEN "000" \o ToString(n)
    ELSE IF n < 100 THEN "00" \o ToString(n)
    ELSE IF n < 1000 THEN "0" \o ToString(n)
    ELSE ToString(n)

\* the proleptic Gregorian date of day number `days` counted from 1970-01-01
CivilFromDays(days) ==
    LET z == days + 719468
        era == z \div 146097
        doe == z - era * 146097
        yoe == (doe - doe \div 1460 + doe \div 36524 - doe \div 146096) \div 365
        doy == doe - (365 * yoe + yoe \div 4 - yoe \div 100)
        mp == (5 * doy + 2) \div 153
        d == doy - (153 * mp + 2) \div 5 + 1
        m == IF mp < 10 THEN mp + 3 ELSE mp - 9
        y == yoe + era * 400 + (IF m <= 2 THEN 1 ELSE 0)
    IN [year |-> y, month |-> m, day |-> d]

\* six digits
Pad6(n) ==
    IF n < 10 THEN "00000" \o ToString(n)
    ELSE IF n < 100 THEN "0000" \o ToString(n)
    ELSE IF n < 1000 THEN "000" \o ToString(n)
    ELSE IF n < 10000 THEN "00" \o ToString(n)
    ELSE IF n < 100000 THEN "0" \o ToString(n)
    ELSE ToString(n)

\* datetime.isoformat() of an aware UTC datetime dt = [secs, micro]: the
\* fraction is printed only when the microsecond is not zero
IsoFormat(dt) ==
    LET c == CivilFromDays(dt.secs \div DaySeconds)
        sod == dt.secs % DaySeconds
        frac == IF dt.micro = 0 THEN "" ELSE "." \o Pad6(dt.micro)
    IN [ text |-> Pad4(c.year) \o "-" \o Pad2(c.month) \o "-" \o Pad2(c.day)
                  \o "T" \o Pad2(sod \div 3600) \o ":"
                  \o Pad2((sod % 3600) \div 60) \o ":" \o Pad2(sod % 60),
         fraction |-> frac,
         offset |-> "+00:00" ]

_rfc3339_utcKeepMicro(dt) ==
    LET iso == IsoFormat(dt)
    IN iso.text \o iso.fraction
         \o (IF iso.offset = "+00:00" THEN "Z" ELSE iso.offset)

\* dt.astimezone(utc).replace(microsecond=0).isoformat().replace("+00:00", "Z")
_rfc3339_utc(dt) ==
    LET iso == IsoFormat([dt EXCEPT !.micro = 0])
    IN iso.text \o iso.fraction
         \o (IF iso.offset = "+00:00" THEN "Z" ELSE iso.offset)

\* the access grant start_auth synthesises when none is given (lines 75-81)
DefaultAccess(now) ==
    [ balances |-> TRUE,
      transactions |-> TRUE,
      valid_until |->
          _rfc3339_utc([now EXCEPT !.secs = @ + ConsentDays * DaySeconds]) ]

StartAuthDataNoState(aspsp_name, country, redirect_url, access, psu_type, auth_method, state) ==
    [ aspsp |-> [name |-> aspsp_name, country |-> country],
      redirect_url |-> redirect_url,
      psu_type |-> psu_type,
      access |-> access ]

\* the JSON payload start_auth posts (lines 83-92)
StartAuthData(aspsp_name, country, redirect_url, access, psu_type, auth_method, state) ==
    LET data == [ aspsp |-> [name |-> aspsp_name, country |-> country],
                  redirect_url |-> redirect_url,
                  psu_type |-> psu_type,
                  access |-> access ]
        data1 == IF Truthy(auth_method)
                   THEN [auth_method |-> auth_method] @@ data ELSE data
    IN IF Truthy(state) THEN [state |-> state] @@ data1 ELSE data1

get_aspsps(country, now) ==
    _request("GET", "/aspsps?country=" \o country, <<>>, now.secs)

\* `if access is None` (lines 75-81): the grant that goes into the payload
AccessOrDefault(access, now) ==
    IF access = NoDict THEN DefaultAccess(now) ELSE access

\* start_auth with every argument given (lines 65-95)
StartAuthRequest(aspsp_name, country, redirect_url, access, psu_type, auth_method, state, now) ==
    _request("POST", "/auth",
             [json |-> StartAuthData(aspsp_name, country, redirect_url,
                                     AccessOrDefault(access, now),
                                     psu_type, auth_method, state)],
             now.secs)

\* start_auth as the page calls it: access, psu_type and auth_method defaulted
start_auth(aspsp_name, country, redirect_url, state, now) ==
    StartAuthRequest(aspsp_name, country, redirect_url, NoDict, "personal",
                     None, state, now)

exchange_code(code, now) ==
    _request("POST", "/sessions", [json |-> [code |-> code]], now.secs)

get_session(session_id, now) ==
    _request("GET", "/sessions/" \o session_id, <<>>, now.secs)

-----------------------------------------------------------------------------
(* streamlit_app.py: inputs of a page evaluation *)

\* values of uuid.uuid4().hex
Nonces == {"n1", "n2"}

\* authorization codes the provider appends to the redirect
Codes == {"c1", "c2"}

\* the clock read by a page evaluation
Nows == {[secs |-> 1767225600, micro |-> 0]}

\* the query string of the page URL: code and state are both optional
QueryParams ==
    { [code |-> c, state |-> st] : c \in Codes \cup {""}, st \in Nonces \cup {""} }
    \cup { [code |-> c] : c \in Codes }
    \cup { [state |-> st] : st \in Nonces }
    \cup { <<>> }

redirect_url == "http://localhost:8501/"

Country == "FR"

\* answers of the remote API: ok is FALSE for a non-2xx status
AspspsResponses ==
    { [ok |-> FALSE, json |-> NoDict],
      [ok |-> TRUE, json |-> [aspsps |-> <<>>]],
      [ok |-> TRUE, json |-> [aspsps |-> <<[name |-> "Bank A"]>>]] }

AuthResponses ==
    { [ok |-> FALSE, json |-> NoDict],
      [ok |-> TRUE, json |-> [url |-> "https://bank.example/consent"]] }

SessionBodies ==
    { [session_id |-> "s1", accounts |-> <<[id |-> "acc1"]>>],
      [session_id |-> "s1"] }

SessionResponses ==
    { [ok |-> FALSE, json |-> NoDict] }
    \cup { [ok |-> TRUE, json |-> b] : b \in SessionBodies }

\* fetch_all_transactions as the page sees it: a list, or an HTTP error
FetchOutcomes ==
    { [ok |-> FALSE, txs |-> <<>>], [ok |-> TRUE, txs |-> <<"t1", "t2">>] }

-----------------------------------------------------------------------------
(* streamlit_app.py: the page script.  A context ctx carries the session   *)
(* state, the service calls made and the widgets rendered so far.          *)

\* st.session_state[key] = value
SetItem(d, key, value) == (key :> value) @@ d

\* a service call: the request it issued and the answer it got
Call(ctx, op, req, resp) ==
    [ctx EXCEPT !.calls = Append(@, [op |-> op, req |-> req, resp |-> resp])]

Show(ctx, message) == [ctx EXCEPT !.messages = Append(@, message)]

Button(ctx, label) == [ctx EXCEPT !.buttons = @ \cup {label}]

Store(ctx, key, value) == [ctx EXCEPT !.ss = SetItem(@, key, value)]

\* the calls of operation op in a call log
CallsOf(calls, op) == SelectSeq(calls, LAMBDA c : c.op = op)

\* the script has ended (ran to its end, st.stop(), or an uncaught exception)
Finish(ctx, outcome) ==
    /\ session_state' = ctx.ss
    /\ run' = [ outcome |-> outcome,
                click |-> ctx.click,
                calls |-> ctx.calls,
                buttons |-> ctx.buttons,
                messages |-> ctx.messages ]
    /\ LET code == Get(query_params', "code", None)
           state == Get(query_params', "state", None)
           sa == CallsOf(ctx.calls, "start_auth")
       IN /\ okMatched' =
                IF /\ CallsOf(ctx.calls, "exchange_code") # <<>>
                   /\ outcome # "raised:exchange_code"
                   /\ Truthy(state)
                   /\ state = Get(ctx.ss, "oauth_state", None)
                  THEN okMatched \cup {code} ELSE okMatched
          /\ lastSentState' =
                IF sa # <<>>
                  THEN Get(sa[Len(sa)].req.kwargs.json, "state", None)
                  ELSE lastSentState
          /\ prevSentState' =
                IF sa # <<>> THEN lastSentState ELSE prevSentState

NotAccountsAlways(accounts) == TRUE

\* `if not accounts` (lines 100 and 104)
NotAccounts(accounts) == accounts = <<>>

\* lines 94-124: the session display block
SessionBlock(ctx, now) ==
    IF "session" \notin DOMAIN ctx.ss
      THEN Finish(ctx, "completed")
      ELSE
        LET session == ctx.ss["session"]
            session_id == Get(session, "session_id", None)
            c1 == Show(ctx, "success:session_created")
            embedded == Get(session, "accounts", <<>>)
        IN \E sresp \in (IF NotAccounts(embedded) THEN SessionResponses
                         ELSE {[ok |-> TRUE, json |-> session]}) :
             LET c2 == IF NotAccounts(embedded)
                         THEN Call(c1, "get_session", get_session(session_id, now), sresp)
                         ELSE c1
                 accounts == IF NotAccounts(embedded)
                               THEN Get(sresp.json, "accounts", <<>>)
                               ELSE embedded
             IN IF ~sresp.ok
                  THEN Finish(c2, "raised:get_session")
                ELSE IF NotAccounts(accounts)
                  THEN Finish(Show(c2, "info:no_accounts"), "stopped:no_accounts")
                ELSE
                  LET c3 == Button(c2, "fetch")
                  IN IF ctx.click # "fetch"
                       THEN Finish(c3, "completed")
                       ELSE \E a \in 1..Len(accounts), fo \in FetchOutcomes :
                              LET c4 == Call(c3, "fetch_all_transactions",
                                             [ account_id |-> Get(accounts[a], "id", ""),
                                               date_from |-> "2026-01-01",
                                               date_to |-> "2026-02-01" ],
                                             fo)
                              IN IF ~fo.ok
                                   THEN Finish(c4, "raised:fetch_all_transactions")
                                   ELSE Finish(Show(c4, "transactions"), "completed")

StateMismatchNever(expected_state, state) == FALSE

\* line 86: the received state and the stored nonce are both present and differ
StateMismatch(expected_state, state) ==
    Truthy(expected_state) /\ Truthy(state) /\ state # expected_state

IsNewCodeAlways(last_code, code) == TRUE

\* line 84: the code is not the last one processed
IsNewCode(last_code, code) == last_code # code

CallbackBlockNoStop(ctx, now) ==
    LET code == Get(query_params', "code", None)
        state == Get(query_params', "state", None)
    IN IF ~Truthy(code) \/ ~IsNewCode(Get(ctx.ss, "last_code", None), code)
         THEN SessionBlock(ctx, now)
       ELSE IF StateMismatch(Get(ctx.ss, "oauth_state", None), state)
         THEN SessionBlock(Show(ctx, "error:state_mismatch"), now)
       ELSE
         \E eresp \in SessionResponses :
           LET c1 == Call(ctx, "exchange_code", exchange_code(code, now), eresp)
           IN IF ~eresp.ok
                THEN Finish(c1, "raised:exchange_code")
                ELSE SessionBlock(
                       Store(Store(c1, "session", eresp.json), "last_code", code),
                       now)

CallbackBlockRecordFirst(ctx, now) ==
    LET code == Get(query_params', "code", None)
        state == Get(query_params', "state", None)
    IN IF ~Truthy(code) \/ ~IsNewCode(Get(ctx.ss, "last_code", None), code)
         THEN SessionBlock(ctx, now)
       ELSE IF StateMismatch(Get(ctx.ss, "oauth_state", None), state)
         THEN Finish(Show(ctx, "error:state_mismatch"), "stopped:state_mismatch")
       ELSE
         \E eresp \in SessionResponses :
           LET c1 == Call(Store(ctx, "last_code", code), "exchange_code",
                          exchange_code(code, now), eresp)
           IN IF ~eresp.ok
                THEN Finish(c1, "raised:exchange_code")
                ELSE SessionBlock(Store(c1, "session", eresp.json), now)

CallbackBlockCheckFirst(ctx, now) ==
    LET code == Get(query_params', "code", None)
        state == Get(query_params', "state", None)
    IN IF ~Truthy(code)
         THEN SessionBlock(ctx, now)
       ELSE IF StateMismatch(Get(ctx.ss, "oauth_state", None), state)
         THEN Finish(Show(ctx, "error:state_mismatch"), "stopped:state_mismatch")
       ELSE IF ~IsNewCode(Get(ctx.ss, "last_code", None), code)
         THEN SessionBlock(ctx, now)
       ELSE
         \E eresp \in SessionResponses :
           LET c1 == Call(ctx, "exchange_code", exchange_code(code, now), eresp)
           IN IF ~eresp.ok
                THEN Finish(c1, "raised:exchange_code")
                ELSE SessionBlock(
                       Store(Store(c1, "session", eresp.json), "last_code", code),
                       now)

\* lines 73-92: the callback handling block
CallbackBlock(ctx, now) ==
    LET code == Get(query_params', "code", None)
        state == Get(query_params', "state", None)
    IN IF ~Truthy(code) \/ ~IsNewCode(Get(ctx.ss, "last_code", None), code)
         THEN SessionBlock(ctx, now)
       ELSE IF StateMismatch(Get(ctx.ss, "oauth_state", None), state)
         THEN Finish(Show(ctx, "error:state_mismatch"), "stopped:state_mismatch")
       ELSE
         \E eresp \in SessionResponses :
           LET c1 == Call(ctx, "exchange_code", exchange_code(code, now), eresp)
           IN IF ~eresp.ok
                THEN Finish(c1, "raised:exchange_code")
                ELSE SessionBlock(
                       Store(Store(c1, "session", eresp.json), "last_code", code),
                       now)

\* lines 67-71: the link to the bank is shown when a consent result is stored
LinkBlock(ctx, now) ==
    IF "auth" \in DOMAIN ctx.ss /\ Truthy(Get(ctx.ss["auth"], "url", None))
      THEN CallbackBlock(Button(ctx, "open_bank_login"), now)
      ELSE CallbackBlock(ctx, now)

CreateLinkBlockKeepFirst(ctx, selected_aspsp, now) ==
    LET c0 == Button(ctx, "create_link")
    IN IF ctx.click # "create_link"
         THEN LinkBlock(c0, now)
         ELSE
           \E oauth_state \in Nonces, aresp \in AuthResponses :
             LET c1 == IF "oauth_state" \in DOMAIN c0.ss THEN c0
                       ELSE Store(c0, "oauth_state", oauth_state)
                 c2 == Call(c1, "start_auth",
                            start_auth(selected_aspsp, Country, redirect_url,
                                       oauth_state, now),
                            aresp)
             IN IF ~aresp.ok
                  THEN Finish(c2, "raised:start_auth")
                  ELSE LinkBlock(Store(c2, "auth", aresp.json), now)

\* lines 52-65: the "Create auth link" button and its handler
CreateLinkBlock(ctx, selected_aspsp, now) ==
    LET c0 == Button(ctx, "create_link")
    IN IF ctx.click # "create_link"
         THEN LinkBlock(c0, now)
         ELSE
           \E oauth_state \in Nonces, aresp \in AuthResponses :
             LET c1 == Store(c0, "oauth_state", oauth_state)
                 c2 == Call(c1, "start_auth",
                            start_auth(selected_aspsp, Country, redirect_url,
                                       oauth_state, now),
                            aresp)
             IN IF ~aresp.ok
                  THEN Finish(c2, "raised:start_auth")
                  ELSE LinkBlock(Store(c2, "auth", aresp.json), now)

\* lines 27-48: credentials, service construction and the bank list
Script(click, now) ==
    LET ctx0 == [ ss |-> session_state, click |-> click, calls |-> <<>>,
                  buttons |-> {}, messages |-> <<>> ]
    IN \E configured \in BOOLEAN :
         IF ~configured
           THEN Finish(Show(ctx0, "warning:credentials"), "stopped:no_credentials")
           ELSE
             \E gresp \in AspspsResponses :
               LET c1 == Call(ctx0, "get_aspsps", get_aspsps(Country, now), gresp)
                   aspsps == Get(gresp.json, "aspsps", <<>>)
               IN IF ~gresp.ok
                    THEN Finish(c1, "raised:get_aspsps")
                  ELSE IF aspsps = <<>>
                    THEN Finish(Show(c1, "info:no_banks"), "stopped:no_banks")
                  ELSE
                    \E b \in 1..Len(aspsps) :
                      CreateLinkBlock(c1, Get(aspsps[b], "name", ""), now)

\* the browser loads the page URL (a redirect from the bank, a refresh):
\* the script runs with no button pressed
Navigate(qp, now) ==
    /\ query_params' = qp
    /\ Script("none", now)
    /\ UNCHANGED <<cvars, gvars>>

\* the user presses "Create auth link", rendered by the last evaluation
ClickCreateLink(now) ==
    /\ "create_link" \in run.buttons
    /\ query_params' = query_params
    /\ Script("create_link", now)
    /\ UNCHANGED <<cvars, gvars>>

\* the user presses "Fetch transactions", rendered by the last evaluation
ClickFetch(now) ==
    /\ "fetch" \in run.buttons
    /\ query_params' = query_params
    /\ Script("fetch", now)
    /\ UNCHANGED <<cvars, gvars>>

InitFlow ==
    /\ session_state = <<>>
    /\ query_params = <<>>
    /\ run = [ outcome |-> "none", click |-> "none", calls |-> <<>>,
               buttons |-> {}, messages |-> <<>> ]
    /\ okMatched = {}
    /\ lastSentState = None
    /\ prevSentState = None

InitAuth == auth_call = NoDict

Init == InitFetch /\ InitFlow /\ InitAuth

NextFlow ==
    \/ \E qp \in QueryParams, now \in Nows : Navigate(qp, now)
    \/ \E now \in Nows : ClickCreateLink(now)
    \/ \E now \in Nows : ClickFetch(now)

Spec == Init /\ [][NextFlow]_vars

-----------------------------------------------------------------------------
(* start_auth called on its own, with and without an access grant *)

\* instants of datetime.now(timezone.utc), seconds since 1970-01-01T00:00:00Z
GrantInstants ==
    { 1767225600,    \* 2026-01-01T00:00:00Z
      1767229199,    \* 2026-01-01T00:59:59Z
      1701302400,    \* 2023-11-30T00:00:00Z, 90 days across 29 February 2024
      1709251199,    \* 2024-02-29T23:59:59Z
      1759363200,    \* 2025-10-02T00:00:00Z
      1759449599,    \* 2025-10-02T23:59:59Z
      1781352245,    \* 2026-06-13T12:04:05Z
      0 }            \* 1970-01-01T00:00:00Z

GrantMicros == {0, 1, 999999}

ExplicitAccess ==
    [ balances |-> TRUE, transactions |-> FALSE,
      valid_until |-> "2027-01-01T00:00:00Z" ]

\* a call of start_auth at clock `now`; the request it issues is recorded
StartAuthCall(aspsp_name, country, access, auth_method, state, now) ==
    /\ auth_call' =
          [ now |-> now,
            access |-> access,
            req |-> StartAuthRequest(aspsp_name, country, redirect_url, access,
                                     "personal", auth_method, state, now) ]
    /\ UNCHANGED <<cvars, fvars>>

NextAuth ==
    \E access \in {NoDict, ExplicitAccess}, auth_method \in {None, "redirect"},
       state \in {None} \cup Nonces,
       secs \in GrantInstants, micro \in GrantMicros :
         StartAuthCall("Bank A", Country, access, auth_method, state,
                       [secs |-> secs, micro |-> micro])

SpecAuth == Init /\ [][NextAuth]_vars


NextFetch ==
    \/ /\ fpc = "idle"
       /\ \E a \in AccountIds, df \in DateFroms, dt \in DateTos,
             mp \in 0..MaxPagesArg, srv \in Servers :
               FetchCall(a, df, dt, mp, srv)
    \/ /\ fpc = "idle"
       /\ \E a \in AccountIds, df \in DateFroms, dt \in DateTos,
             ck \in {None} \cup ContinuationKeys,
             srv \in { s \in Servers : Len(s) = 1 }, now \in Clocks :
               GetTransactionsCall(a, df, dt, ck, srv, now)
    \/ \E now \in Clocks : FetchPage(now)
    \/ FetchReturn

SpecFetch == Init /\ [][NextFetch]_vars

\* the loop is ordinary sequential code: a step that can be taken is taken
FairSpecFetch ==
    SpecFetch /\ WF_vars(\E now \in Clocks : FetchPage(now)) /\ WF_vars(FetchReturn)

-----------------------------------------------------------------------------
(* Properties of fetch_all_transactions and get_transactions *)

\* the page the server gives to the k-th request of the call
PageOf(k) == Respond(server, k)

\* the continuation token of a page body is present and truthy
HasToken(resp) == resp.ok /\ Truthy(Get(resp.json, "continuation_key", None))

\* the transactions of pages 1..n, concatenated in page order
RECURSIVE PagesItems(_)
PagesItems(n) ==
    IF n = 0 THEN <<>>
    ELSE PagesItems(n - 1) \o Get(PageOf(n).json, "transactions", <<>>)

\* the server gives a continuation token on every page
AlwaysToken == \A k \in 1..Len(server) : HasToken(server[k])

\* C4: pagination is bounded. A fetch_all_transactions call never issues more
\* than max_pages page requests, it always terminates (returns or raises),
\* and against a server that gives a token on every page it returns exactly
\* the items of the first max_pages pages.
C4_PaginationBounded ==
    /\ [](frame.account_id # None =>
            /\ Len(sent) <= frame.max_pages
            /\ (fpc = "returned" /\ AlwaysToken =>
                  /\ Len(sent) = frame.max_pages
                  /\ fret = PagesItems(frame.max_pages)))
    /\ ((fpc = "for") ~> (fpc \in {"returned", "raised"}))

C4_Witness ==
    /\ fpc = "returned"
    /\ AlwaysToken
    /\ frame.max_pages = 2
    /\ Len(sent) = 2
    /\ Len(fret) >= 2

\* N is the first page without a (truthy) continuation token, and every page
\* before it succeeded
FirstTokenlessPage(N) ==
    /\ \A k \in 1..(N - 1) : HasToken(PageOf(k))
    /\ PageOf(N).ok
    /\ ~HasToken(PageOf(N))

\* C5: when pages 1..N-1 carry a token and page N (N <= max_pages) carries
\* none, the call returns after exactly N page requests with exactly the
\* transactions of pages 1..N concatenated in page order.
C5_StopsAtFirstTokenlessPage ==
    \A N \in 1..frame.max_pages :
        (fpc \in {"return", "returned", "raised"} /\ frame.account_id # None
           /\ FirstTokenlessPage(N)) =>
              /\ fpc # "raised"
              /\ Len(sent) = N
              /\ frame.all_items = PagesItems(N)
              /\ (fpc = "returned" => fret = PagesItems(N))

C5_Witness ==
    /\ fpc = "returned"
    /\ FirstTokenlessPage(3)
    /\ \A k \in 1..3 : Len(Get(PageOf(k).json, "transactions", <<>>)) = 2
    /\ Len(sent) = 3
    /\ Len(fret) = 6

\* C7: an HTTP error on page k aborts the aggregation: request k is the last
\* request of the call, the call raises and nothing is returned.
C7_ErrorAbortsAggregation ==
    frame.account_id # None =>
        /\ \A k \in 1..Len(sent) :
              ~PageOf(k).ok => (k = Len(sent) /\ fpc = "raised" /\ fret = <<>>)
        /\ (fpc = "raised" => Len(sent) >= 1 /\ ~PageOf(Len(sent)).ok)

C7_Witness ==
    /\ fpc = "raised"
    /\ frame.account_id # None
    /\ Len(sent) = 2
    /\ frame.max_pages >= 3
    /\ Len(frame.all_items) >= 1
    /\ fret = <<>>

\* the optional filters a get_transactions call was given (None and the empty
\* string both count as omitted)
Supplied(args) ==
    { k \in {"date_from", "date_to", "continuation_key"} : Truthy(args[k]) }

\* C10: every get_transactions request carries exactly the supplied optional
\* filters as parameters, each with the value it was given; an omitted filter
\* is not a key of the request parameters at all.
C10_OnlySuppliedFilters ==
    \A k \in 1..Len(sent) :
        LET params == sent[k].req.kwargs.params
            args == sent[k].args
        IN /\ DOMAIN params = Supplied(args)
           /\ \A key \in DOMAIN params : params[key] = args[key] /\ params[key] # ""
           /\ (Supplied(args) = {} => params = <<>>)

C10_Witness ==
    /\ Len(sent) = 2
    /\ sent[1].args.date_to = None
    /\ DOMAIN sent[1].req.kwargs.params = {"date_from"}
    /\ DOMAIN sent[2].req.kwargs.params = {"date_from", "continuation_key"}

\* the bearer token carried by the k-th request of the call
TokenOf(k) == sent[k].req.headers["Authorization"].token

\* C12: every request carries a token minted for it: the k-th request of a
\* call carries the token of the k-th clock reading (N requests, N tokens),
\* with issued_at equal to that reading, issued_at < expires_at and
\* expires_at - issued_at = 3600.
C12_FreshTokenPerRequest ==
    /\ Len(minted) = Len(sent)
    /\ \A k \in 1..Len(sent) :
          /\ sent[k].req.headers["Authorization"].scheme = "Bearer"
          /\ TokenOf(k).payload.iat = minted[k]
          /\ TokenOf(k).payload.iat < TokenOf(k).payload.exp
          /\ TokenOf(k).payload.exp - TokenOf(k).payload.iat = 3600

C12_Witness ==
    /\ fpc = "returned"
    /\ Len(sent) = 3
    /\ minted = <<1767225600, 1767229200, 1767225600>>
    /\ TokenOf(2).payload.iat = 1767229200
    /\ TokenOf(2).payload.exp = 1767232800

\* the continuation key returned by page k (None when the body has none)
KeyOfPage(k) == Get(PageOf(k).json, "continuation_key", None)

\* C13: inside one fetch_all_transactions call the first request carries no
\* continuation key, request k+1 carries exactly the key page k returned,
\* and every request has the account and the date filters of the call.
C13_KeysCarriedForward ==
    frame.account_id # None =>
        \A k \in 1..Len(sent) :
            LET params == sent[k].req.kwargs.params
                args == sent[k].args
            IN /\ k = 1 =>
                    /\ args.continuation_key = None
                    /\ "continuation_key" \notin DOMAIN params
               /\ k > 1 =>
                    /\ Truthy(KeyOfPage(k - 1))
                    /\ args.continuation_key = KeyOfPage(k - 1)
                    /\ "continuation_key" \in DOMAIN params
                    /\ params["continuation_key"] = KeyOfPage(k - 1)
               /\ args.account_id = frame.account_id
               /\ args.date_from = frame.date_from
               /\ args.date_to = frame.date_to
               /\ sent[k].req.url = sent[1].req.url
               /\ Get(params, "date_from", None) = Get(sent[1].req.kwargs.params, "date_from", None)
               /\ Get(params, "date_to", None) = Get(sent[1].req.kwargs.params, "date_to", None)

C13_Witness ==
    /\ frame.account_id # None
    /\ Len(sent) = 3
    /\ KeyOfPage(1) = "k2"
    /\ KeyOfPage(2) = "k1"
    /\ sent[2].req.kwargs.params["continuation_key"] = "k2"
    /\ sent[3].req.kwargs.params["continuation_key"] = "k1"
    /\ Truthy(frame.date_from)

-----------------------------------------------------------------------------
(* Properties of the page script *)

\* Flow State, as the spec names its parts
Nonce == Get(session_state, "oauth_state", None)

LastCode == Get(session_state, "last_code", None)

Session == Get(session_state, "session", NoDict)

Consent == Get(session_state, "auth", NoDict)

QCode == Get(query_params, "code", None)

QState == Get(query_params, "state", None)

\* the evaluation r got as far as the callback handling block (line 73)
ReachedCallback(r) ==
    r.outcome \notin {"none", "stopped:no_credentials", "raised:get_aspsps",
                      "stopped:no_banks", "raised:start_auth"}

\* the evaluation r got as far as the session display block (line 94)
ReachedSession(r) ==
    r.outcome \in {"raised:get_session", "stopped:no_accounts",
                   "raised:fetch_all_transactions", "completed"}

ExchangeCalls(r) == CallsOf(r.calls, "exchange_code")

\* the codes for which evaluation r called exchange_code
ExchangedCodes(r) ==
    { ExchangeCalls(r)[k].req.kwargs.json.code : k \in 1..Len(ExchangeCalls(r)) }

\* C1: a callback with a new code whose state and the stored nonce are both
\* present and differ ends the evaluation in Rejected, with no exchange_code
\* call, and records neither a session nor a last-processed code.
C1_MismatchRejects ==
    [][ ( /\ ReachedCallback(run')
          /\ Truthy(QCode') /\ QCode' # LastCode
          /\ Truthy(Nonce') /\ Truthy(QState') /\ QState' # Nonce' ) =>
            /\ run'.outcome = "stopped:state_mismatch"
            /\ ExchangeCalls(run') = <<>>
            /\ Session' = Session
            /\ LastCode' = LastCode ]_vars

C1_Witness ==
    /\ run.outcome = "stopped:state_mismatch"
    /\ QCode = "c1"
    /\ QState = "n2"
    /\ Nonce = "n1"
    /\ ExchangeCalls(run) = <<>>

\* C2 as stated: once a code was exchanged successfully on a callback whose
\* state equalled the stored nonce, exchange_code is never called for that
\* code again.
C2_ExchangedOnceEver ==
    [][ \A c \in okMatched : c \notin ExchangedCodes(run') ]_vars

\* C2, amended: once a code was exchanged successfully on a callback whose
\* state equalled the stored nonce, then for as long as it is the
\* last-processed code no evaluation calls exchange_code for it, and an
\* evaluation that observes it again makes no exchange at all and keeps the
\* recorded session and last-processed code.
C2_ExchangedOnceWhileLast ==
    [][ \A c \in okMatched :
          LastCode = c =>
            /\ c \notin ExchangedCodes(run')
            /\ (QCode' = c =>
                  /\ ExchangeCalls(run') = <<>>
                  /\ Session' = Session
                  /\ LastCode' = c) ]_vars

C2_Witness ==
    /\ "c1" \in okMatched
    /\ LastCode = "c1"
    /\ QCode = "c1"
    /\ QState = Nonce
    /\ ReachedSession(run)
    /\ ExchangeCalls(run) = <<>>

\* C3: exchange_code is called for a callback only if the state received on
\* it equals the nonce stored when the consent link was created.
C3_ExchangeOnlyOnMatchingNonce ==
    [][ ExchangeCalls(run') # <<>> =>
          (Truthy(Nonce') /\ QState' = Nonce') ]_vars

\* Flow State is the same before and after the step
FlowStateUnchanged == session_state' = session_state

\* C6: an evaluation in which a Banking Client call raises leaves Flow State
\* as it was before the failed transition was triggered: a failed consent
\* creation leaves all of it unchanged, and a failed exchange, session
\* re-fetch or transaction fetch leaves the session and the last-processed
\* code unchanged (and all of it when no consent was created in the same
\* evaluation).
C6_FailureKeepsPriorState ==
    [][ /\ run'.outcome \in {"raised:get_aspsps", "raised:start_auth"} =>
              FlowStateUnchanged
        /\ run'.outcome \in {"raised:exchange_code", "raised:get_session",
                             "raised:fetch_all_transactions"} =>
              /\ ExchangeCalls(run') = <<>> \/ run'.outcome = "raised:exchange_code"
                   => (Session' = Session /\ LastCode' = LastCode)
              /\ run'.click # "create_link" /\ run'.outcome = "raised:exchange_code"
                   => FlowStateUnchanged ]_vars

StartAuthCalls(r) == CallsOf(r.calls, "start_auth")

\* C8: the state value in the payload of every start_auth call is the nonce
\* stored in Flow State, and the stored nonce is always the state sent by
\* the most recent start_auth call.
C8_NonceSentIsNonceStored ==
    /\ \A k \in 1..Len(StartAuthCalls(run)) :
          LET data == StartAuthCalls(run)[k].req.kwargs.json
          IN "state" \in DOMAIN data /\ data.state = Nonce /\ Truthy(Nonce)
    /\ lastSentState = Nonce

C8_Witness ==
    /\ Len(StartAuthCalls(run)) = 1
    /\ StartAuthCalls(run)[1].req.kwargs.json.state = "n2"
    /\ Nonce = "n2"
    /\ run.outcome = "completed"

GetSessionCalls(r) == CallsOf(r.calls, "get_session")

FetchCalls(r) == CallsOf(r.calls, "fetch_all_transactions")

\* C9: in the session display block, a session with embedded accounts is
\* never re-fetched; a session without them is re-fetched once by its id,
\* and when the re-fetched session has no accounts either the evaluation
\* stops with the "no accounts" information, without an error, without a
\* fetch_all_transactions call, the stored session unchanged by the re-fetch.
C9_SessionRefetch ==
    [][ ReachedSession(run') /\ "session" \in DOMAIN session_state' =>
          LET accounts == Get(Session', "accounts", <<>>)
              gs == GetSessionCalls(run')
          IN /\ accounts # <<>> => gs = <<>>
             /\ accounts = <<>> =>
                  /\ Len(gs) = 1
                  /\ gs[1].req.url =
                       base_url \o "/sessions/" \o Get(Session', "session_id", None)
                  /\ (gs[1].resp.ok /\ Get(gs[1].resp.json, "accounts", <<>>) = <<>>) =>
                        /\ run'.outcome = "stopped:no_accounts"
                        /\ run'.messages[Len(run'.messages)] = "info:no_accounts"
                        /\ FetchCalls(run') = <<>>
                        /\ "fetch" \notin run'.buttons
             /\ ExchangeCalls(run') = <<>> => Session' = Session ]_vars

C9_Witness ==
    /\ run.outcome = "stopped:no_accounts"
    /\ Len(GetSessionCalls(run)) = 1
    /\ GetSessionCalls(run)[1].resp.ok
    /\ Get(Session, "accounts", <<>>) = <<>>
    /\ Get(Session, "session_id", None) = "s1"
    /\ ExchangeCalls(run) = <<>>

\* the operations evaluation r called, in order
OpsOf(r) == [k \in 1..Len(r.calls) |-> r.calls[k].op]

\* evaluation r found a nonce mismatch
MismatchFound(r) ==
    \E k \in 1..Len(r.messages) : r.messages[k] = "error:state_mismatch"

\* C14: once an evaluation has found the nonce mismatch it ends there: the
\* error is the last thing it shows, it has made no exchange_code,
\* get_session or fetch_all_transactions call even when a session is stored,
\* and the session and last-processed code (all of Flow State when no
\* consent was created earlier in the same evaluation) are as before.
C14_RejectedIsTerminal ==
    [][ MismatchFound(run') =>
          /\ run'.outcome = "stopped:state_mismatch"
          /\ run'.messages[Len(run'.messages)] = "error:state_mismatch"
          /\ \A k \in 1..Len(run'.calls) :
                OpsOf(run')[k] \in {"get_aspsps", "start_auth"}
          /\ "fetch" \notin run'.buttons
          /\ Session' = Session
          /\ LastCode' = LastCode
          /\ (StartAuthCalls(run') = <<>> => FlowStateUnchanged) ]_vars

C14_Witness ==
    /\ MismatchFound(run)
    /\ "session" \in DOMAIN session_state
    /\ Get(Session, "accounts", <<>>) = <<>>
    /\ GetSessionCalls(run) = <<>>
    /\ OpsOf(run) = <<"get_aspsps">>

\* evaluation r ended in a failed exchange or in a rejected callback
FailedCallback(r) ==
    r.outcome \in {"raised:exchange_code", "stopped:state_mismatch"}

\* C15: a failed exchange or a rejected callback does not update the
\* last-processed code, and the next evaluation that observes the same code
\* is not suppressed: it is rejected again or calls exchange_code for it.
C15_RecordedOnlyAfterSuccess ==
    [][ /\ FailedCallback(run') =>
              /\ LastCode' = LastCode
              /\ LastCode' # QCode'
        /\ (FailedCallback(run) /\ QCode' = QCode /\ ReachedCallback(run')) =>
              \/ run'.outcome = "stopped:state_mismatch"
              \/ QCode \in ExchangedCodes(run') ]_vars

C15_Witness ==
    /\ run.outcome = "raised:exchange_code"
    /\ QCode = "c1"
    /\ LastCode = "c2"
    /\ ExchangedCodes(run) = {"c1"}

\* C16: a callback whose code is the last-processed code is never rejected
\* and never exchanged, whatever state it carries and whatever nonce is
\* stored; the recorded session and last-processed code stay.
C16_DuplicateBeforeNonceCheck ==
    [][ (ReachedCallback(run') /\ Truthy(QCode') /\ QCode' = LastCode) =>
          /\ ~MismatchFound(run')
          /\ run'.outcome # "stopped:state_mismatch"
          /\ ExchangeCalls(run') = <<>>
          /\ Session' = Session
          /\ LastCode' = LastCode ]_vars

C16_Witness ==
    /\ LastCode = "c1"
    /\ QCode = "c1"
    /\ QState = "n1"
    /\ prevSentState = "n1"
    /\ Nonce = "n2"
    /\ ReachedSession(run)
    /\ ExchangeCalls(run) = <<>>
    /\ "session" \in DOMAIN session_state

\* C17: a consent creation overwrites the stored nonce with the one it
\* sends, so a not-yet-processed callback whose state is present but is not
\* the most recently sent nonce is rejected without an exchange, and
\* exchange_code is reached only with the most recent nonce or when the
\* state check does not apply (no state received, or no nonce stored).
C17_OnlyLatestNonceHonoured ==
    [][ /\ StartAuthCalls(run') # <<>> => Nonce' = lastSentState'
        /\ (ReachedCallback(run') /\ Truthy(QCode') /\ QCode' # LastCode) =>
              /\ (Truthy(lastSentState') /\ Truthy(QState')
                    /\ QState' # lastSentState') =>
                    /\ run'.outcome = "stopped:state_mismatch"
                    /\ ExchangeCalls(run') = <<>>
              /\ ExchangeCalls(run') # <<>> =>
                    \/ QState' = lastSentState'
                    \/ ~Truthy(QState')
                    \/ ~Truthy(lastSentState') ]_vars

C17_Witness ==
    /\ prevSentState = "n1"
    /\ lastSentState = "n2"
    /\ QState = "n1"
    /\ Truthy(QCode)
    /\ QCode # LastCode
    /\ run.outcome = "stopped:state_mismatch"
    /\ ExchangeCalls(run) = <<>>

-----------------------------------------------------------------------------
(* Properties of start_auth *)

\* now + 90 days as an RFC3339 UTC timestamp, for each instant tried
ExpectedValidUntil ==
    (1767225600 :> "2026-04-01T00:00:00Z")
    @@ (1767229199 :> "2026-04-01T00:59:59Z")
    @@ (1701302400 :> "2024-02-28T00:00:00Z")
    @@ (1709251199 :> "2024-05-29T23:59:59Z")
    @@ (1759363200 :> "2025-12-31T00:00:00Z")
    @@ (1759449599 :> "2025-12-31T23:59:59Z")
    @@ (1781352245 :> "2026-09-11T12:04:05Z")
    @@ (0 :> "1970-04-01T00:00:00Z")

\* start_auth has been called without an access grant
DefaultedCall == auth_call # NoDict /\ auth_call.access = NoDict

\* C11 as stated: without an explicit access grant, at the clock
\* 2026-01-01T00:00:00Z the synthesised grant has balances and transactions
\* true and valid_until 2026-03-31T00:00:00Z.
C11_ValidUntilMarch31 ==
    (DefaultedCall /\ auth_call.now.secs = 1767225600) =>
        auth_call.req.kwargs.json.access =
            [ balances |-> TRUE, transactions |-> TRUE,
              valid_until |-> "2026-03-31T00:00:00Z" ]

\* C11, amended: without an explicit access grant the payload carries a
\* grant with balances and transactions true and valid_until = clock + 90
\* days, written with second precision and a Z suffix whatever the clock's
\* microsecond; at 2026-01-01T00:00:00Z that is 2026-04-01T00:00:00Z.
C11_DefaultGrant ==
    DefaultedCall =>
        /\ auth_call.req.kwargs.json.access =
             [ balances |-> TRUE, transactions |-> TRUE,
               valid_until |-> ExpectedValidUntil[auth_call.now.secs] ]
        /\ (auth_call.now.secs = 1767225600 =>
              auth_call.req.kwargs.json.access.valid_until = "2026-04-01T00:00:00Z")

C11_Witness ==
    /\ DefaultedCall
    /\ auth_call.now = [secs |-> 1767225600, micro |-> 999999]
    /\ auth_call.req.kwargs.json.access.valid_until = "2026-04-01T00:00:00Z"

====
